---------------------------- MODULE Spec2Model ----------------------------
(***************************************************************************)
(* Load-balancing strategies of package balance: Plain Round-Robin,        *)
(* Smooth Weighted Round-Robin, Weighted Random and Random.  A caller      *)
(* holds one                                                               *)
(* strategy instance (variable strategy) and many goroutines call Next on  *)
(* it.  Each strategy keeps its own group of variables; the groups of the  *)
(* strategies that are not in use stay at their idle values.               *)
(***************************************************************************)
EXTENDS Integers, Sequences, FiniteSets, TLC

(***************************************************************************)
(* Bounds of the model.                                                    *)
(***************************************************************************)
\* width of the round-robin counter (uint64 in the code, scaled down)
CounterBits == 3
\* largest number of servers of a Plain Round-Robin instance
RrMaxServers == 3
\* largest number of goroutines calling RoundRobinBalancer.Next
RrMaxThreads == 2
\* largest number of Next calls each of those goroutines issues
RrMaxCalls == 4

\* largest number of nodes of a generated Smooth Weighted Round-Robin pool
SrrMaxNodes == 3
\* largest small weight of a generated Smooth Weighted Round-Robin pool
SrrMaxSmallWeight == 2
\* largest number of goroutines calling smoothRoundRobinBalancer.Next
SrrMaxThreads == 2
\* largest number of Next calls started on one Smooth instance
SrrMaxCalls == 10
\* largest number of times NewSmoothRRBalancer is called on one input
SrrMaxCtorCalls == 2

\* largest number of entries of a generated Weighted Random pool
WrMaxLen == 3
\* largest weight of a generated Weighted Random pool
WrMaxWeight == 2
\* the generated Weighted Random weights go down to -WrMaxNeg
WrMaxNeg == 1
\* largest number of pool replacements
WrMaxReplaces == 1

\* largest number of servers of a generated Random list
RndMaxServers == 3

\* const maxWeight, maxTotalWeight
maxWeight == 1000000
maxTotalWeight == 10000000

CounterMod == 2 ^ CounterBits

VARIABLES
    strategy,     \* the balancer the caller constructed: "rr", "srr", "wr", "rnd"
    \* ---- RoundRobinBalancer ----
    rrCopy,       \* the copy of the type in use: "balance" or "backend"
    rrBuilt,      \* NewRoundRobinBalancer returned ("ok") or panicked ("panic")
    rrServers,    \* r.servers
    rrIndex,      \* r.index, a CounterBits-wide unsigned counter
    rrG,          \* number of goroutines calling Next
    rrC,          \* number of calls each goroutine issues
    rrPc,         \* per goroutine: "idle" or "idx" (between the add and the return)
    rrNewVal,     \* per goroutine: the local newVal
    rrDone,       \* per goroutine: number of calls that have returned
    rrLast,       \* per goroutine: the value its last call returned
    rrCount,      \* per server position: number of calls that returned it
    rrTickets,    \* the post-increment counter values obtained so far
    rrDup,        \* some call obtained a value another call had obtained
    rrWrapped,    \* the counter has wrapped past its maximum
    rrOverlap,    \* some add ran while another call was between add and return
    \* ---- smoothRoundRobinBalancer ----
    srrInput,     \* the []*Node the caller passes to NewSmoothRRBalancer
    srrState,     \* "new" (no instance yet), "ready" (instance returned)
    srrOutcomes,  \* the outcomes of the constructor calls made so far
    srrCtorCalls, \* number of constructor calls made so far
    srrNodes,     \* r.nodes: per node its weight and current
    srrLock,      \* r.lock: 0 when free, else the goroutine holding it
    srrG,         \* number of goroutines calling Next
    srrPc,        \* per goroutine: "idle", "lock" (waiting), "loop" (inside)
    srrI,         \* per goroutine: position of the range loop
    srrTotal,     \* per goroutine: the local totalWeight
    srrBest,      \* per goroutine: the local bestNode (0 is nil)
    srrStarted,   \* number of Next calls started
    srrLog,       \* the nodes returned, in the order the calls returned
    srrUses,      \* the callers read the fields of the node Next returned
    srrHeld,      \* per goroutine: the returned node it is about to read, or 0
    \* ---- RandomWeightBalancer ----
    wrServers,    \* r.servers: the list held by the atomic.Value
    wrHistory,    \* every list stored into r.servers so far
    wrBudget,     \* number of pool replacements still to come
    wrLock,       \* r.lock: 0 when free, else the goroutine holding it
    wrG,          \* number of goroutines calling Next
    wrPc,         \* per goroutine: "idle", "sum", "lock", "draw", "walk",
                  \* "ret" (about to return wrRet), "panic"
    wrSnap,       \* per goroutine: the local servers (the list it loaded)
    wrTotal,      \* per goroutine: the local totalWeight
    wrIdx,        \* per goroutine: the value rng.Intn returned
    wrDrew,       \* per goroutine: the call has drawn from rng
    wrRet,        \* per goroutine: the value the call returns
    wrHow,        \* per goroutine: the return statement taken
    \* ---- RandomBalancer ----
    rndServers,   \* r.servers
    rndLock,      \* r.mu: 0 when free, else the goroutine holding it
    rndG,         \* number of goroutines calling Next
    rndPc,        \* per goroutine: "idle", "lock", "draw", "index", "ret", "panic"
    rndIdx,       \* per goroutine: the local idx
    rndDrew,      \* per goroutine: the current call has called rng.Intn
    rndRet,       \* per goroutine: the value the current call returns
    rndSeen       \* per goroutine: the values its earlier calls returned

rrVars == <<rrCopy, rrBuilt, rrServers, rrIndex, rrG, rrC, rrPc, rrNewVal, rrDone, rrLast,
            rrCount, rrTickets, rrDup, rrWrapped, rrOverlap>>

srrVars == <<srrInput, srrState, srrOutcomes, srrCtorCalls, srrNodes, srrLock,
             srrG, srrPc, srrI, srrTotal, srrBest, srrStarted, srrLog,
             srrUses, srrHeld>>

wrVars == <<wrServers, wrHistory, wrBudget, wrLock, wrG, wrPc, wrSnap, wrTotal,
            wrIdx, wrDrew, wrRet, wrHow>>

rndVars == <<rndServers, rndLock, rndG, rndPc, rndIdx, rndDrew, rndRet, rndSeen>>

vars == <<strategy, rrVars, srrVars, wrVars, rndVars>>

(***************************************************************************)
(* Helpers.                                                                *)
(***************************************************************************)
\* the sentinel "no server" return value
Sentinel == ""

ServerName(i) == "server" \o ToString(i)

\* f[1] + ... + f[n]
RECURSIVE SumTo(_, _)
SumTo(f, n) == IF n = 0 THEN 0 ELSE f[n] + SumTo(f, n - 1)

(***************************************************************************)
(* Plain Round-Robin.                                                      *)
(***************************************************************************)
RrThreads == 1 .. RrMaxThreads

\* NewRoundRobinBalancer(servers) of either copy: package backend panics on
\* an empty list, package balance has no check
NewRoundRobinBalancer(copy, servers) ==
    IF copy = "backend" /\ Len(servers) = 0 THEN "panic" ELSE "ok"

\* NewRoundRobinBalancer(servers): the list is kept as given, index is 0.
\* Goroutines issue up to RrMaxCalls calls each; a single caller also issues
\* enough calls to take the counter past its maximum.
RrInit ==
    /\ strategy = "rr"
    /\ rrCopy \in {"balance", "backend"}
    /\ \E n \in 0 .. RrMaxServers : rrServers = [i \in 1 .. n |-> ServerName(i)]
    /\ rrBuilt = NewRoundRobinBalancer(rrCopy, rrServers)
    /\ rrIndex = 0
    /\ \/ rrG \in 1 .. RrMaxThreads /\ rrC \in 1 .. RrMaxCalls
       \/ rrG = 1 /\ rrC = CounterMod + 2
    /\ rrPc = [t \in RrThreads |-> "idle"]
    /\ rrNewVal = [t \in RrThreads |-> 0]
    /\ rrDone = [t \in RrThreads |-> 0]
    /\ rrLast = [t \in RrThreads |-> Sentinel]
    /\ rrCount = [i \in 1 .. RrMaxServers |-> 0]
    /\ rrTickets = {}
    /\ rrDup = FALSE
    /\ rrWrapped = FALSE
    /\ rrOverlap = FALSE

RrIdle ==
    /\ rrCopy = "balance"
    /\ rrBuilt = "ok"
    /\ rrServers = <<>>
    /\ rrIndex = 0
    /\ rrG = 0
    /\ rrC = 0
    /\ rrPc = [t \in RrThreads |-> "idle"]
    /\ rrNewVal = [t \in RrThreads |-> 0]
    /\ rrDone = [t \in RrThreads |-> 0]
    /\ rrLast = [t \in RrThreads |-> Sentinel]
    /\ rrCount = [i \in 1 .. RrMaxServers |-> 0]
    /\ rrTickets = {}
    /\ rrDup = FALSE
    /\ rrWrapped = FALSE
    /\ rrOverlap = FALSE

\* if len(r.servers) == 0 { return "" }
RrNextEmpty(t) ==
    /\ strategy = "rr"
    /\ rrBuilt = "ok"
    /\ rrCopy = "balance"
    /\ t <= rrG
    /\ rrPc[t] = "idle"
    /\ rrDone[t] < rrC
    /\ Len(rrServers) = 0
    /\ rrDone' = [rrDone EXCEPT ![t] = @ + 1]
    /\ rrLast' = [rrLast EXCEPT ![t] = Sentinel]
    /\ UNCHANGED <<srrVars, wrVars, rndVars>>
    /\ UNCHANGED <<strategy, rrCopy, rrBuilt, rrServers, rrIndex, rrG, rrC, rrPc, rrNewVal,
                   rrCount, rrTickets, rrDup, rrWrapped, rrOverlap>>

\* A non-atomic increment (load, add, store): the store of one goroutine may
\* be overwritten by the stale store of another, so the increment is lost.
AddUint64Racy(t) ==
    /\ rrNewVal' = [rrNewVal EXCEPT ![t] = (rrIndex + 1) % CounterMod]
    /\ rrIndex' \in {rrIndex, (rrIndex + 1) % CounterMod}

\* newVal := atomic.AddUint64(&r.index, 1): one indivisible step that
\* increments the counter (wrapping at its width) and yields the new value.
AddUint64(t) ==
    /\ rrIndex' = (rrIndex + 1) % CounterMod
    /\ rrNewVal' = [rrNewVal EXCEPT ![t] = (rrIndex + 1) % CounterMod]

RrAdd(t) ==
    /\ strategy = "rr"
    /\ rrBuilt = "ok"
    /\ t <= rrG
    /\ rrPc[t] = "idle"
    /\ rrDone[t] < rrC
    /\ rrCopy = "balance" => Len(rrServers) # 0
    /\ AddUint64(t)
    /\ rrPc' = [rrPc EXCEPT ![t] = "idx"]
    /\ rrTickets' = rrTickets \cup {rrNewVal'[t]}
    /\ rrDup' = (rrDup \/ rrNewVal'[t] \in rrTickets)
    /\ rrWrapped' = (rrWrapped \/ rrIndex + 1 >= CounterMod)
    /\ rrOverlap' = (rrOverlap \/ \E u \in RrThreads : u # t /\ rrPc[u] = "idx")
    /\ UNCHANGED <<srrVars, wrVars, rndVars>>
    /\ UNCHANGED <<strategy, rrCopy, rrBuilt, rrServers, rrG, rrC, rrDone, rrLast, rrCount>>

\* the index computed without the "- 1"
RrIdxNoDec(newVal, n) == newVal % n

\* idx := (newVal - 1) % uint64(len(r.servers)), in unsigned arithmetic of
\* the counter's width; the result is a 0-based position.
RrIdx(newVal, n) == ((newVal - 1) % CounterMod) % n

\* return r.servers[idx]
RrReturn(t) ==
    /\ strategy = "rr"
    /\ rrPc[t] = "idx"
    /\ IF Len(rrServers) = 0
       THEN \* backend copy only: the modulo by zero is a run-time panic
            /\ rrPc' = [rrPc EXCEPT ![t] = "panic"]
            /\ UNCHANGED <<rrLast, rrCount, rrNewVal, rrDone>>
       ELSE LET idx == RrIdx(rrNewVal[t], Len(rrServers)) IN
            /\ rrLast' = [rrLast EXCEPT ![t] = rrServers[idx + 1]]
            /\ rrCount' = [rrCount EXCEPT ![idx + 1] = @ + 1]
            /\ rrPc' = [rrPc EXCEPT ![t] = "idle"]
            /\ rrNewVal' = [rrNewVal EXCEPT ![t] = 0]
            /\ rrDone' = [rrDone EXCEPT ![t] = @ + 1]
    /\ UNCHANGED <<srrVars, wrVars, rndVars>>
    /\ UNCHANGED <<strategy, rrCopy, rrBuilt, rrServers, rrIndex, rrG, rrC, rrTickets, rrDup,
                   rrWrapped, rrOverlap>>

RrNext == \E t \in RrThreads : RrNextEmpty(t) \/ RrAdd(t) \/ RrReturn(t)

(***************************************************************************)
(* Smooth Weighted Round-Robin.                                            *)
(***************************************************************************)
SrrThreads == 1 .. SrrMaxThreads

\* type Node: the server is named by the node's position in the list
Node(w, c) == [weight |-> w, current |-> c]

\* all lists of length 0..n over the set S
SeqsUpTo(S, n) == UNION {[1 .. k -> S] : k \in 0 .. n}

\* the weight lists the caller may pass: every list of up to SrrMaxNodes
\* weights from a domain with invalid values (-1, 0, maxWeight+1), the pools
\* of the repository's tests, and 10 and 11 nodes of maxWeight each (the total
\* at and above maxTotalWeight with every weight within maxWeight)
SrrWeightDomain == (-1 .. SrrMaxSmallWeight) \cup {maxWeight, maxWeight + 1}

SrrTestPools == {<<4, 1>>, <<5, 1, 1>>, <<3, 2, 1>>, <<5, 3, 2>>}

SrrHeavyPools == {[i \in 1 .. k |-> maxWeight] : k \in {10, 11}}

SrrPools == SeqsUpTo(SrrWeightDomain, SrrMaxNodes) \cup SrrTestPools
                \cup SrrHeavyPools

\* the nodes of the tests carry current: 0; a caller may also pass nodes
\* whose current is not 0
SrrInputs ==
    {[i \in DOMAIN p |-> Node(p[i], 0)] : p \in SrrPools}
        \cup {<<Node(2, 1), Node(1, 0)>>, <<Node(1, 0), Node(1, 2)>>}

\* the nodes of the test that reads node.server and node.current of the
\* node each call returned
SrrLoggedInput == <<Node(4, 0), Node(1, 0)>>

SrrInit ==
    /\ strategy = "srr"
    /\ srrInput \in SrrInputs
    /\ srrState = "new"
    /\ srrOutcomes = {}
    /\ srrCtorCalls = 0
    /\ srrNodes = <<>>
    /\ srrLock = 0
    /\ srrG \in 1 .. SrrMaxThreads
    /\ srrPc = [t \in SrrThreads |-> "idle"]
    /\ srrI = [t \in SrrThreads |-> 0]
    /\ srrTotal = [t \in SrrThreads |-> 0]
    /\ srrBest = [t \in SrrThreads |-> 0]
    /\ srrStarted = 0
    /\ srrLog = <<>>
    /\ srrUses \in (IF srrInput = SrrLoggedInput THEN BOOLEAN ELSE {FALSE})
    /\ srrHeld = [t \in SrrThreads |-> 0]

SrrIdle ==
    /\ srrInput = <<>>
    /\ srrState = "new"
    /\ srrOutcomes = {}
    /\ srrCtorCalls = 0
    /\ srrNodes = <<>>
    /\ srrLock = 0
    /\ srrG = 0
    /\ srrPc = [t \in SrrThreads |-> "idle"]
    /\ srrI = [t \in SrrThreads |-> 0]
    /\ srrTotal = [t \in SrrThreads |-> 0]
    /\ srrBest = [t \in SrrThreads |-> 0]
    /\ srrStarted = 0
    /\ srrLog = <<>>
    /\ srrUses = FALSE
    /\ srrHeld = [t \in SrrThreads |-> 0]

\* the weight test that lets a zero weight through
WeightPanicsZeroAllowed(w) ==
    IF w < 0 THEN "nonpositive"
    ELSE IF w > maxWeight THEN "exceeds"
    ELSE "ok"

\* the two checks of one node in the constructor's loop, in their order
WeightPanics(w) ==
    IF w <= 0 THEN "nonpositive"
    ELSE IF w > maxWeight THEN "exceeds"
    ELSE "ok"

\* for _, node := range nodes { ... totalWeight += node.weight }: the first
\* panic of the loop, or the total when no node panics
RECURSIVE ValidateFrom(_, _, _)
ValidateFrom(nodes, i, totalWeight) ==
    IF i > Len(nodes) THEN [panic |-> "ok", total |-> totalWeight]
    ELSE IF WeightPanics(nodes[i].weight) # "ok"
         THEN [panic |-> WeightPanics(nodes[i].weight), total |-> totalWeight]
         ELSE ValidateFrom(nodes, i + 1, totalWeight + nodes[i].weight)

\* the outcome of NewSmoothRRBalancer(nodes): "ok" or the panic raised
NewSmoothRRBalancer(nodes) ==
    IF Len(nodes) = 0 THEN "empty"
    ELSE LET v == ValidateFrom(nodes, 1, 0) IN
         IF v.panic # "ok" THEN v.panic
         ELSE IF v.total > maxTotalWeight THEN "total"
         ELSE "ok"

\* a call of the constructor: it panics, or it returns the instance, which
\* holds the caller's nodes as they are
SrrNew ==
    /\ strategy = "srr"
    /\ srrState = "new"
    /\ srrCtorCalls < SrrMaxCtorCalls
    /\ srrCtorCalls' = srrCtorCalls + 1
    /\ srrOutcomes' = srrOutcomes \cup {NewSmoothRRBalancer(srrInput)}
    /\ IF NewSmoothRRBalancer(srrInput) = "ok"
       THEN srrState' = "ready" /\ srrNodes' = srrInput
       ELSE srrState' = "new" /\ srrNodes' = srrNodes
    /\ UNCHANGED <<srrUses, srrHeld>>
    /\ UNCHANGED <<srrInput, srrLock, srrG, srrPc, srrI, srrTotal, srrBest,
                   srrStarted, srrLog>>
    /\ UNCHANGED <<strategy, rrVars, wrVars, rndVars>>

\* a goroutine calls Next and reaches r.lock.Lock()
SrrCall(t) ==
    /\ strategy = "srr"
    /\ srrState = "ready"
    /\ t <= srrG
    /\ srrPc[t] = "idle"
    /\ srrHeld[t] = 0
    /\ srrStarted < SrrMaxCalls
    /\ srrStarted' = srrStarted + 1
    /\ srrPc' = [srrPc EXCEPT ![t] = "lock"]
    /\ UNCHANGED <<srrUses, srrHeld>>
    /\ UNCHANGED <<srrInput, srrState, srrOutcomes, srrCtorCalls, srrNodes,
                   srrLock, srrG, srrI, srrTotal, srrBest, srrLog>>
    /\ UNCHANGED <<strategy, rrVars, wrVars, rndVars>>

\* entering without waiting for the lock to be free
LockNoWait(t) == srrLock' = t

\* r.lock.Lock(): blocks until the lock is free, then holds it
Lock(t) == srrLock = 0 /\ srrLock' = t

\* the lock is acquired; var ( totalWeight = 0; bestNode *Node )
SrrLock(t) ==
    /\ strategy = "srr"
    /\ srrPc[t] = "lock"
    /\ Lock(t)
    /\ srrPc' = [srrPc EXCEPT ![t] = "loop"]
    /\ srrI' = [srrI EXCEPT ![t] = 1]
    /\ srrTotal' = [srrTotal EXCEPT ![t] = 0]
    /\ srrBest' = [srrBest EXCEPT ![t] = 0]
    /\ UNCHANGED <<srrUses, srrHeld>>
    /\ UNCHANGED <<srrInput, srrState, srrOutcomes, srrCtorCalls, srrNodes,
                   srrG, srrStarted, srrLog>>
    /\ UNCHANGED <<strategy, rrVars, wrVars, rndVars>>

\* node.current += node.weight
Bump(nodes, i) == [nodes EXCEPT ![i].current = @ + nodes[i].weight]

\* the candidate chosen by weight instead of by current
BetterByWeight(nodes, i, best) ==
    IF best = 0 \/ nodes[i].weight > nodes[best].weight THEN i ELSE best

\* a later node of equal current replacing the candidate
BetterOrEqual(nodes, i, best) ==
    IF best = 0 \/ nodes[i].current >= nodes[best].current THEN i ELSE best

\* if bestNode == nil || node.current > bestNode.current { bestNode = node }
Better(nodes, i, best) ==
    IF best = 0 \/ nodes[i].current > nodes[best].current THEN i ELSE best

\* one iteration of: for _, node := range r.nodes
SrrLoop(t) ==
    /\ strategy = "srr"
    /\ srrPc[t] = "loop"
    /\ srrI[t] <= Len(srrNodes)
    /\ srrNodes' = Bump(srrNodes, srrI[t])
    /\ srrTotal' = [srrTotal EXCEPT ![t] = @ + srrNodes[srrI[t]].weight]
    /\ srrBest' = [srrBest EXCEPT ![t] = Better(srrNodes', srrI[t], @)]
    /\ srrI' = [srrI EXCEPT ![t] = @ + 1]
    /\ UNCHANGED <<srrUses, srrHeld>>
    /\ UNCHANGED <<srrInput, srrState, srrOutcomes, srrCtorCalls, srrLock,
                   srrG, srrPc, srrStarted, srrLog>>
    /\ UNCHANGED <<strategy, rrVars, wrVars, rndVars>>

\* the selected node lowered by its own weight instead of by the total
SettleByWeight(nodes, best, totalWeight) ==
    IF best # 0 THEN [nodes EXCEPT ![best].current = @ - nodes[best].weight]
    ELSE nodes

\* if bestNode != nil { bestNode.current -= totalWeight }
Settle(nodes, best, totalWeight) ==
    IF best # 0 THEN [nodes EXCEPT ![best].current = @ - totalWeight]
    ELSE nodes

\* the loop is over: settle, return bestNode, and the deferred Unlock runs
SrrReturn(t) ==
    /\ strategy = "srr"
    /\ srrPc[t] = "loop"
    /\ srrI[t] > Len(srrNodes)
    /\ srrNodes' = Settle(srrNodes, srrBest[t], srrTotal[t])
    /\ srrLog' = Append(srrLog, srrBest[t])
    /\ srrHeld' = IF srrUses THEN [srrHeld EXCEPT ![t] = srrBest[t]] ELSE srrHeld
    /\ srrLock' = 0
    /\ srrPc' = [srrPc EXCEPT ![t] = "idle"]
    /\ srrI' = [srrI EXCEPT ![t] = 0]
    /\ srrTotal' = [srrTotal EXCEPT ![t] = 0]
    /\ srrBest' = [srrBest EXCEPT ![t] = 0]
    /\ UNCHANGED srrUses
    /\ UNCHANGED <<srrInput, srrState, srrOutcomes, srrCtorCalls, srrG,
                   srrStarted>>
    /\ UNCHANGED <<strategy, rrVars, wrVars, rndVars>>

\* the caller reads node.server and node.current through the pointer that
\* Next returned to it; it holds no lock
SrrUse(t) ==
    /\ strategy = "srr"
    /\ srrPc[t] = "idle"
    /\ srrHeld[t] # 0
    /\ srrHeld' = [srrHeld EXCEPT ![t] = 0]
    /\ UNCHANGED <<srrInput, srrState, srrOutcomes, srrCtorCalls, srrNodes, srrLock,
                   srrG, srrPc, srrI, srrTotal, srrBest, srrStarted, srrLog, srrUses>>
    /\ UNCHANGED <<strategy, rrVars, wrVars, rndVars>>

\* one whole Next call run by a single caller with nobody else inside: the
\* nodes it leaves and the node it returns
RECURSIVE NextLoop(_, _, _, _)
NextLoop(nodes, i, totalWeight, best) ==
    IF i > Len(nodes)
    THEN [nodes |-> Settle(nodes, best, totalWeight), best |-> best]
    ELSE NextLoop(Bump(nodes, i), i + 1, totalWeight + nodes[i].weight,
                  Better(Bump(nodes, i), i, best))

\* k Next calls one after the other, starting from nodes: the nodes they
\* leave and the sequence of nodes they return
RECURSIVE SequentialRun(_, _)
SequentialRun(nodes, k) ==
    IF k = 0 THEN [nodes |-> nodes, log |-> <<>>]
    ELSE LET before == SequentialRun(nodes, k - 1)
             call == NextLoop(before.nodes, 1, 0, 0)
         IN [nodes |-> call.nodes, log |-> Append(before.log, call.best)]

SrrNext ==
    \/ SrrNew
    \/ \E t \in SrrThreads :
            SrrCall(t) \/ SrrLock(t) \/ SrrLoop(t) \/ SrrReturn(t) \/ SrrUse(t)


(***************************************************************************)
(* Weighted Random.                                                        *)
(***************************************************************************)
\* two goroutines call RandomWeightBalancer.Next
WrThreads == {1, 2}

\* type Server
Server(a, w) == [Addr |-> a, Weight |-> w]

ServersOf(p) == [i \in DOMAIN p |-> Server(ServerName(i), p[i])]

\* every list of up to WrMaxLen weights, negative and zero weights included
WrPools == {ServersOf(p) : p \in SeqsUpTo((0 - WrMaxNeg) .. WrMaxWeight, WrMaxLen)}

\* the pools of the tests (weights 10,20,30; -10,20; 0,0; 0,10,20, in tens)
WrTestPools == {ServersOf(p) : p \in {<<1, 2, 3>>, <<-1, 2>>, <<0, 0>>, <<0, 1, 2>>}}

\* pools with a weight above maxWeight (their totals kept small by a
\* negative weight, so that the draws stay few)
WrHeavyPools ==
    {ServersOf(p) : p \in {<<maxWeight + 1, 0 - maxWeight>>,
                           <<1, maxWeight + 1, 0 - maxWeight>>}}

\* NewRandomWeightBalancer(servers): the list is stored as it is, unchecked.
\* A single caller is run on every generated pool and on the heavy pools;
\* two callers and pool replacement are run on the pools of the tests.
WrInit ==
    /\ strategy = "wr"
    /\ \/ wrServers \in WrPools \cup WrHeavyPools /\ wrG = 1 /\ wrBudget = 0
       \/ wrServers \in WrTestPools /\ wrG \in WrThreads /\ wrBudget = WrMaxReplaces
    /\ wrHistory = {wrServers}
    /\ wrLock = 0
    /\ wrPc = [t \in WrThreads |-> "idle"]
    /\ wrSnap = [t \in WrThreads |-> <<>>]
    /\ wrTotal = [t \in WrThreads |-> 0]
    /\ wrIdx = [t \in WrThreads |-> 0]
    /\ wrDrew = [t \in WrThreads |-> FALSE]
    /\ wrRet = [t \in WrThreads |-> Sentinel]
    /\ wrHow = [t \in WrThreads |-> "none"]

WrIdle ==
    /\ wrServers = <<>>
    /\ wrHistory = {}
    /\ wrBudget = 0
    /\ wrLock = 0
    /\ wrG = 0
    /\ wrPc = [t \in WrThreads |-> "idle"]
    /\ wrSnap = [t \in WrThreads |-> <<>>]
    /\ wrTotal = [t \in WrThreads |-> 0]
    /\ wrIdx = [t \in WrThreads |-> 0]
    /\ wrDrew = [t \in WrThreads |-> FALSE]
    /\ wrRet = [t \in WrThreads |-> Sentinel]
    /\ wrHow = [t \in WrThreads |-> "none"]

Reverse(s) == [i \in DOMAIN s |-> s[Len(s) + 1 - i]]

\* the lists a pool update may store in place of the list cur: the same
\* entries in another order, or no entries (the pool drained)
WrReplacements(cur) == {Reverse(cur), <<>>}

\* pool update: the whole list is replaced by one atomic Store
WrReplace ==
    /\ strategy = "wr"
    /\ wrBudget > 0
    /\ wrBudget' = wrBudget - 1
    /\ \E new \in WrReplacements(wrServers) :
        /\ wrServers' = new
        /\ wrHistory' = wrHistory \cup {new}
    /\ UNCHANGED <<wrLock, wrG, wrPc, wrSnap, wrTotal, wrIdx, wrDrew, wrRet, wrHow>>
    /\ UNCHANGED <<strategy, rrVars, srrVars, rndVars>>

\* servers := r.servers.Load().([]*Server); if len(servers) == 0 { return "" }
WrLoad(t) ==
    /\ strategy = "wr"
    /\ t <= wrG
    /\ wrPc[t] = "idle"
    /\ wrSnap' = [wrSnap EXCEPT ![t] = wrServers]
    /\ IF Len(wrServers) = 0
       THEN /\ wrPc' = [wrPc EXCEPT ![t] = "ret"]
            /\ wrRet' = [wrRet EXCEPT ![t] = Sentinel]
            /\ wrHow' = [wrHow EXCEPT ![t] = "empty"]
       ELSE /\ wrPc' = [wrPc EXCEPT ![t] = "sum"]
            /\ UNCHANGED <<wrRet, wrHow>>
    /\ UNCHANGED <<wrServers, wrHistory, wrBudget, wrLock, wrG, wrTotal, wrIdx, wrDrew>>
    /\ UNCHANGED <<strategy, rrVars, srrVars, rndVars>>

\* totalWeight := 0; for _, s := range servers { totalWeight += s.Weight }
RECURSIVE TotalWeight(_, _)
TotalWeight(servers, n) ==
    IF n = 0 THEN 0 ELSE TotalWeight(servers, n - 1) + servers[n].Weight

\* the test that lets a total of 0 through
TotalNegative(totalWeight) == totalWeight < 0

\* if totalWeight <= 0
TotalNotPositive(totalWeight) == totalWeight <= 0

\* the total is summed; if totalWeight <= 0 { return "" }
WrSum(t) ==
    /\ strategy = "wr"
    /\ wrPc[t] = "sum"
    /\ wrTotal' = [wrTotal EXCEPT ![t] = TotalWeight(wrSnap[t], Len(wrSnap[t]))]
    /\ IF TotalNotPositive(wrTotal'[t])
       THEN /\ wrPc' = [wrPc EXCEPT ![t] = "ret"]
            /\ wrRet' = [wrRet EXCEPT ![t] = Sentinel]
            /\ wrHow' = [wrHow EXCEPT ![t] = "zero"]
       ELSE /\ wrPc' = [wrPc EXCEPT ![t] = "lock"]
            /\ UNCHANGED <<wrRet, wrHow>>
    /\ UNCHANGED <<wrServers, wrHistory, wrBudget, wrLock, wrG, wrSnap, wrIdx, wrDrew>>
    /\ UNCHANGED <<strategy, rrVars, srrVars, rndVars>>

\* entering the draw without waiting for the mutex to be free
WrLockNoWait(t) ==
    /\ strategy = "wr"
    /\ wrPc[t] = "lock"
    /\ wrLock' = t
    /\ wrPc' = [wrPc EXCEPT ![t] = "draw"]
    /\ UNCHANGED <<wrServers, wrHistory, wrBudget, wrG, wrSnap, wrTotal, wrIdx,
                   wrDrew, wrRet, wrHow>>
    /\ UNCHANGED <<strategy, rrVars, srrVars, rndVars>>

\* r.lock.Lock()
WrLock(t) ==
    /\ strategy = "wr"
    /\ wrPc[t] = "lock"
    /\ wrLock = 0
    /\ wrLock' = t
    /\ wrPc' = [wrPc EXCEPT ![t] = "draw"]
    /\ UNCHANGED <<wrServers, wrHistory, wrBudget, wrG, wrSnap, wrTotal, wrIdx,
                   wrDrew, wrRet, wrHow>>
    /\ UNCHANGED <<strategy, rrVars, srrVars, rndVars>>

\* a draw that may also yield n
IntnInclusive(n) == 0 .. n

\* rng.Intn(n): the values a draw may yield, for n > 0
Intn(n) == 0 .. (n - 1)

\* idx := r.rng.Intn(totalWeight); r.lock.Unlock().  Intn panics when its
\* argument is <= 0, and then the lock stays held.
WrDraw(t) ==
    /\ strategy = "wr"
    /\ wrPc[t] = "draw"
    /\ IF wrTotal[t] <= 0
       THEN /\ wrPc' = [wrPc EXCEPT ![t] = "panic"]
            /\ UNCHANGED <<wrIdx, wrLock, wrDrew>>
       ELSE /\ \E r \in Intn(wrTotal[t]) : wrIdx' = [wrIdx EXCEPT ![t] = r]
            /\ wrDrew' = [wrDrew EXCEPT ![t] = TRUE]
            /\ wrLock' = 0
            /\ wrPc' = [wrPc EXCEPT ![t] = "walk"]
    /\ UNCHANGED <<wrServers, wrHistory, wrBudget, wrG, wrSnap, wrTotal, wrRet, wrHow>>
    /\ UNCHANGED <<strategy, rrVars, srrVars, rndVars>>

\* the test that also stops at 0
NotPositive(idx) == idx <= 0

\* if idx < 0
Negative(idx) == idx < 0

\* for _, s := range servers { idx -= s.Weight; if idx < 0 { return s.Addr } }
\* return servers[0].Addr
RECURSIVE WalkFrom(_, _, _)
WalkFrom(servers, i, idx) ==
    IF i > Len(servers)
    THEN IF Len(servers) = 0
         THEN [how |-> "panic", pos |-> 0, addr |-> Sentinel]
         ELSE [how |-> "fallback", pos |-> 1, addr |-> servers[1].Addr]
    ELSE IF Negative(idx - servers[i].Weight)
         THEN [how |-> "loop", pos |-> i, addr |-> servers[i].Addr]
         ELSE WalkFrom(servers, i + 1, idx - servers[i].Weight)

\* the list walked, read again from r.servers
WalkListReloaded(t) == wrServers

\* the list walked is the local servers, loaded once at the top of Next
WalkList(t) == wrSnap[t]

\* the walk over the list, up to the return statement it reaches
WrWalk(t) ==
    /\ strategy = "wr"
    /\ wrPc[t] = "walk"
    /\ LET res == WalkFrom(WalkList(t), 1, wrIdx[t]) IN
        /\ wrPc' = [wrPc EXCEPT ![t] = IF res.how = "panic" THEN "panic" ELSE "ret"]
        /\ wrRet' = [wrRet EXCEPT ![t] = res.addr]
        /\ wrHow' = [wrHow EXCEPT ![t] = res.how]
    /\ UNCHANGED <<wrServers, wrHistory, wrBudget, wrLock, wrG, wrSnap, wrTotal,
                   wrIdx, wrDrew>>
    /\ UNCHANGED <<strategy, rrVars, srrVars, rndVars>>

\* Next returns wrRet to its caller
WrReturn(t) ==
    /\ strategy = "wr"
    /\ wrPc[t] = "ret"
    /\ wrPc' = [wrPc EXCEPT ![t] = "idle"]
    /\ wrSnap' = [wrSnap EXCEPT ![t] = <<>>]
    /\ wrTotal' = [wrTotal EXCEPT ![t] = 0]
    /\ wrIdx' = [wrIdx EXCEPT ![t] = 0]
    /\ wrDrew' = [wrDrew EXCEPT ![t] = FALSE]
    /\ wrRet' = [wrRet EXCEPT ![t] = Sentinel]
    /\ wrHow' = [wrHow EXCEPT ![t] = "none"]
    /\ UNCHANGED <<wrServers, wrHistory, wrBudget, wrLock, wrG>>
    /\ UNCHANGED <<strategy, rrVars, srrVars, rndVars>>

WrNext ==
    \/ WrReplace
    \/ \E t \in WrThreads :
        WrLoad(t) \/ WrSum(t) \/ WrLock(t) \/ WrDraw(t) \/ WrWalk(t) \/ WrReturn(t)


\* ===========================================================================
\* RandomBalancer
\* ===========================================================================

\* goroutines calling RandomBalancer.Next
RndThreads == {1, 2}

\* NewRandomBalancer(servers): the list is kept as given, the lock is free
RndInit ==
    /\ strategy = "rnd"
    /\ \E n \in 0 .. RndMaxServers : rndServers = [i \in 1 .. n |-> ServerName(i)]
    /\ rndLock = 0
    /\ rndG \in RndThreads
    /\ rndPc = [t \in RndThreads |-> "idle"]
    /\ rndIdx = [t \in RndThreads |-> 0]
    /\ rndDrew = [t \in RndThreads |-> FALSE]
    /\ rndRet = [t \in RndThreads |-> Sentinel]
    /\ rndSeen = [t \in RndThreads |-> {}]

\* the RandomBalancer fields while another strategy is in use
RndIdle ==
    /\ rndServers = <<>>
    /\ rndLock = 0
    /\ rndG = 0
    /\ rndPc = [t \in RndThreads |-> "idle"]
    /\ rndIdx = [t \in RndThreads |-> 0]
    /\ rndDrew = [t \in RndThreads |-> FALSE]
    /\ rndRet = [t \in RndThreads |-> Sentinel]
    /\ rndSeen = [t \in RndThreads |-> {}]

\* Next, entry: if len(r.servers) == 0 { return "" }
RndCall(t) ==
    /\ strategy = "rnd"
    /\ t <= rndG
    /\ rndPc[t] = "idle"
    /\ IF Len(rndServers) = 0
       THEN /\ rndPc' = [rndPc EXCEPT ![t] = "ret"]
            /\ rndRet' = [rndRet EXCEPT ![t] = Sentinel]
       ELSE /\ rndPc' = [rndPc EXCEPT ![t] = "lock"]
            /\ UNCHANGED rndRet
    /\ UNCHANGED <<rndServers, rndLock, rndG, rndIdx, rndDrew, rndSeen>>
    /\ UNCHANGED <<strategy, rrVars, srrVars, wrVars>>

\* r.mu.Lock(): blocks while another goroutine holds the mutex
RndLock(t) ==
    /\ strategy = "rnd"
    /\ rndPc[t] = "lock"
    /\ rndLock = 0
    /\ rndLock' = t
    /\ rndPc' = [rndPc EXCEPT ![t] = "draw"]
    /\ UNCHANGED <<rndServers, rndG, rndIdx, rndDrew, rndRet, rndSeen>>
    /\ UNCHANGED <<strategy, rrVars, srrVars, wrVars>>

RndUnlockMissing == UNCHANGED rndLock

\* r.mu.Unlock()
RndUnlock == rndLock' = 0

\* idx := r.rng.Intn(len(r.servers)); r.mu.Unlock()
RndDraw(t) ==
    /\ strategy = "rnd"
    /\ rndPc[t] = "draw"
    /\ \E i \in Intn(Len(rndServers)) : rndIdx' = [rndIdx EXCEPT ![t] = i]
    /\ rndDrew' = [rndDrew EXCEPT ![t] = TRUE]
    /\ RndUnlock
    /\ rndPc' = [rndPc EXCEPT ![t] = "index"]
    /\ UNCHANGED <<rndServers, rndG, rndRet, rndSeen>>
    /\ UNCHANGED <<strategy, rrVars, srrVars, wrVars>>

\* return r.servers[idx]: an index outside the list is a run-time panic
RndIndex(t) ==
    /\ strategy = "rnd"
    /\ rndPc[t] = "index"
    /\ IF rndIdx[t] >= 0 /\ rndIdx[t] < Len(rndServers)
       THEN /\ rndRet' = [rndRet EXCEPT ![t] = rndServers[rndIdx[t] + 1]]
            /\ rndPc' = [rndPc EXCEPT ![t] = "ret"]
       ELSE /\ rndPc' = [rndPc EXCEPT ![t] = "panic"]
            /\ UNCHANGED rndRet
    /\ UNCHANGED <<rndServers, rndLock, rndG, rndIdx, rndDrew, rndSeen>>
    /\ UNCHANGED <<strategy, rrVars, srrVars, wrVars>>

\* the caller has the returned value and may call Next again
RndReturn(t) ==
    /\ strategy = "rnd"
    /\ rndPc[t] = "ret"
    /\ rndSeen' = [rndSeen EXCEPT ![t] = @ \cup {rndRet[t]}]
    /\ rndPc' = [rndPc EXCEPT ![t] = "idle"]
    /\ rndIdx' = [rndIdx EXCEPT ![t] = 0]
    /\ rndDrew' = [rndDrew EXCEPT ![t] = FALSE]
    /\ rndRet' = [rndRet EXCEPT ![t] = Sentinel]
    /\ UNCHANGED <<rndServers, rndLock, rndG>>
    /\ UNCHANGED <<strategy, rrVars, srrVars, wrVars>>

RndNext ==
    \E t \in RndThreads :
        RndCall(t) \/ RndLock(t) \/ RndDraw(t) \/ RndIndex(t) \/ RndReturn(t)

(***************************************************************************)
(* Specifications: the caller holds one strategy instance.                 *)
(***************************************************************************)
InitRR == RrInit /\ SrrIdle /\ WrIdle /\ RndIdle

InitSRR == SrrInit /\ RrIdle /\ WrIdle /\ RndIdle

InitWR == WrInit /\ RrIdle /\ SrrIdle /\ RndIdle

InitRnd == RndInit /\ RrIdle /\ SrrIdle /\ WrIdle

Init == InitRR \/ InitSRR \/ InitWR \/ InitRnd

Next == RrNext \/ SrrNext \/ WrNext \/ RndNext

Spec == Init /\ [][Next]_vars

SpecRR == InitRR /\ [][RrNext]_vars

SpecSRR == InitSRR /\ [][SrrNext]_vars

SpecWR == InitWR /\ [][WrNext]_vars

SpecRnd == InitRnd /\ [][RndNext]_vars

\* the two strategies that draw from a random source
SpecDraw == (InitWR \/ InitRnd) /\ [][WrNext \/ RndNext]_vars

\* The scheduler is weakly fair to every step inside a started Next call.
\* sync.Mutex hands the lock to a goroutine that keeps waiting for it
\* (starvation mode), so a Lock that can be taken again and again is
\* eventually taken: strong fairness.  Callers are free never to call.
Fairness ==
    /\ \A t \in RrThreads : WF_vars(RrReturn(t))
    /\ \A t \in SrrThreads :
            SF_vars(SrrLock(t)) /\ WF_vars(SrrLoop(t)) /\ WF_vars(SrrReturn(t))
    /\ \A t \in WrThreads :
            /\ WF_vars(WrSum(t)) /\ SF_vars(WrLock(t)) /\ WF_vars(WrDraw(t))
            /\ WF_vars(WrWalk(t)) /\ WF_vars(WrReturn(t))
    /\ \A t \in RndThreads :
            /\ SF_vars(RndLock(t)) /\ WF_vars(RndDraw(t))
            /\ WF_vars(RndIndex(t)) /\ WF_vars(RndReturn(t))

\* The instances on which progress is checked: every strategy, with every
\* number of goroutines of its safety runs.  What a blocked call waits for
\* is the lock, not the data, so each Plain Round-Robin goroutine issues one
\* call, the Smooth and Weighted Random pools are those of the tests, and
\* the Random list has at most two servers.
InitFair ==
    \/ InitRR /\ rrC = 1
    \/ InitSRR /\ srrInput \in {[i \in DOMAIN p |-> Node(p[i], 0)] : p \in SrrTestPools}
    \/ InitWR /\ wrServers \in WrTestPools /\ wrBudget = WrMaxReplaces
    \/ InitRnd /\ Len(rndServers) <= 2

FairSpec == InitFair /\ [][Next]_vars /\ Fairness

(***************************************************************************)
(* Claims about Plain Round-Robin.                                         *)
(***************************************************************************)
RrAllReturned == \A t \in 1 .. rrG : rrDone[t] = rrC /\ rrPc[t] = "idle"

\* number of calls that have obtained a counter value so far
RrObtained ==
    IF Len(rrServers) = 0 THEN 0
    ELSE SumTo(rrDone, rrG) + Cardinality({t \in 1 .. rrG : rrPc[t] = "idx"})

\* number of k in 1..calls with (k-1) mod n = i-1
RrExpected(calls, n, i) == Cardinality({k \in 1 .. calls : (k - 1) % n = i - 1})

\* C1: on a fresh instance with N >= 1 servers used by one sequential caller,
\* the k-th Next call (k below the counter range) returns servers[(k-1) mod N],
\* and after k calls every server has been returned once per completed turn
\* of the list (so N calls return each server once, call N+1 the first again).
C1_RoundRobinSequential ==
    (strategy = "rr" /\ rrG = 1 /\ Len(rrServers) >= 1 /\ rrPc[1] = "idle"
        /\ rrDone[1] >= 1 /\ rrDone[1] < CounterMod)
    => LET k == rrDone[1]
           n == Len(rrServers)
       IN /\ rrLast[1] = rrServers[((k - 1) % n) + 1]
          /\ \A i \in 1 .. n : rrCount[i] = RrExpected(k, n, i)

\* C1 witness: three servers, the fourth sequential call has returned the
\* first server again.
C1_Witness ==
    /\ strategy = "rr" /\ rrG = 1 /\ Len(rrServers) = 3
    /\ rrDone[1] = 4 /\ rrPc[1] = "idle"
    /\ rrLast[1] = rrServers[1]
    /\ rrCount[1] = 2 /\ rrCount[2] = 1 /\ rrCount[3] = 1

\* C2: with G goroutines issuing C calls each on N servers, G*C below the
\* counter range, no two calls obtain the same post-increment counter value
\* in any interleaving, and once all calls have returned the selection counts
\* of any two servers differ by at most 1 (each is G*C/N when N divides G*C).
C2_RoundRobinConcurrent ==
    (strategy = "rr" /\ rrG * rrC < CounterMod)
    => /\ ~rrDup
       /\ Cardinality(rrTickets) = RrObtained
       /\ RrAllReturned =>
            LET n == Len(rrServers) IN
            /\ \A i, j \in 1 .. n :
                    rrCount[i] - rrCount[j] <= 1
            /\ \A i \in 1 .. n :
                    ((rrG * rrC) % n = 0) => rrCount[i] = (rrG * rrC) \div n

\* C2 witness: two goroutines whose calls overlapped have all returned, and
\* every one of the three servers was selected twice.
C2_Witness ==
    /\ strategy = "rr" /\ rrG = 2 /\ rrC = 3 /\ Len(rrServers) = 3
    /\ rrOverlap /\ RrAllReturned
    /\ \A i \in 1 .. 3 : rrCount[i] = 2

(***************************************************************************)
(* Claims about Smooth Weighted Round-Robin.                               *)
(***************************************************************************)
SrrWeights == [i \in DOMAIN srrNodes |-> srrNodes[i].weight]

SrrTotalWeight == SumTo(SrrWeights, Len(srrNodes))

\* the instance was built from nodes whose current is 0
SrrZeroStart == \A i \in DOMAIN srrInput : srrInput[i].current = 0

\* number of calls of the log that returned node i
SrrSelected(i) == Cardinality({p \in DOMAIN srrLog : srrLog[p] = i})

SrrNobodyInside == \A t \in SrrThreads : srrPc[t] # "loop"

\* each node i has been returned m * w_i times whenever m * T calls returned
SrrExactCounts ==
    \A m \in 1 .. SrrMaxCalls :
        Len(srrLog) = m * SrrTotalWeight
        => \A i \in DOMAIN srrNodes : SrrSelected(i) = m * srrNodes[i].weight

\* C3: for every valid pool with weights w_1..w_N and total T, starting from
\* all current = 0, T sequential Next calls (one caller) return each node i
\* exactly w_i times, and m*T calls return it exactly m*w_i times.
C3_SmoothExactPeriodicity ==
    (strategy = "srr" /\ srrState = "ready" /\ srrG = 1 /\ SrrZeroStart)
    => SrrExactCounts

\* C3 witness: one caller has made 6 calls on the pool [3,2,1] and got the
\* nodes 3, 2 and 1 times.
C3_Witness ==
    /\ strategy = "srr" /\ srrState = "ready" /\ srrG = 1 /\ SrrZeroStart
    /\ SrrWeights = <<3, 2, 1>>
    /\ Len(srrLog) = 6
    /\ SrrSelected(1) = 3 /\ SrrSelected(2) = 2 /\ SrrSelected(3) = 1

\* C4: the loop and the subtraction of a Next call run with the lock held, so
\* no two goroutines are inside them at once; for every interleaving the
\* returned nodes, in the order the lock was held, are the sequence one
\* sequential caller gets, the accumulators between calls are the sequential
\* ones, and after m*T returned calls node i was returned exactly m*w_i times.
C4_SmoothSerialized ==
    (strategy = "srr" /\ srrState = "ready")
    => /\ \A t, u \in SrrThreads :
            (srrPc[t] = "loop" /\ srrPc[u] = "loop") => t = u
       /\ \A t \in SrrThreads : srrPc[t] = "loop" => srrLock = t
       /\ srrLog = SequentialRun(srrInput, Len(srrLog)).log
       /\ SrrNobodyInside => srrNodes = SequentialRun(srrInput, Len(srrLog)).nodes
       /\ SrrZeroStart => SrrExactCounts

\* C4 witness: on the pool [3,2,1] six calls have returned with counts 3, 2,
\* 1, one goroutine is in the middle of the loop and the other waits for the lock.
C4_Witness ==
    /\ strategy = "srr" /\ srrState = "ready" /\ srrG = 2 /\ SrrZeroStart
    /\ SrrWeights = <<3, 2, 1>>
    /\ Len(srrLog) = 6
    /\ SrrSelected(1) = 3 /\ SrrSelected(2) = 2 /\ SrrSelected(3) = 1
    /\ srrPc[1] = "loop" /\ srrI[1] = 2 /\ srrPc[2] = "lock"

SrrInputInvalid ==
    \/ Len(srrInput) = 0
    \/ \E i \in DOMAIN srrInput : srrInput[i].weight <= 0
    \/ \E i \in DOMAIN srrInput : srrInput[i].weight > maxWeight
    \/ SumTo([i \in DOMAIN srrInput |-> srrInput[i].weight], Len(srrInput))
            > maxTotalWeight

\* C5: NewSmoothRRBalancer panics and returns no instance whenever the node
\* list is empty, a weight is <= 0, a weight exceeds maxWeight, or the sum of
\* the weights exceeds maxTotalWeight (also when every weight is within
\* maxWeight); every call on the same invalid input fails the same way; every
\* other input yields an instance.
C5_SmoothConstruction ==
    (strategy = "srr" /\ srrCtorCalls >= 1)
    => /\ Cardinality(srrOutcomes) = 1
       /\ SrrInputInvalid => (srrState = "new" /\ "ok" \notin srrOutcomes)
       /\ ~SrrInputInvalid => (srrState = "ready" /\ srrOutcomes = {"ok"})

\* C5 witness: eleven nodes of weight maxWeight each (every weight within the
\* per-node ceiling, the sum above the pool ceiling) were rejected twice.
C5_Witness ==
    /\ strategy = "srr" /\ srrCtorCalls = 2 /\ srrState = "new"
    /\ Len(srrInput) = 11
    /\ \A i \in DOMAIN srrInput :
            srrInput[i].weight > 0 /\ srrInput[i].weight <= maxWeight
    /\ srrOutcomes = {"total"}

\* C10: on the pool [4,1] started from all current = 0 no five consecutive
\* returned calls all select the heavier node, and after 5 calls every
\* current is 0 again, so the sequence repeats and the bound holds for the
\* whole sequence, runs across the period boundary included.
C10_SmoothMaxRun ==
    (strategy = "srr" /\ srrState = "ready" /\ SrrZeroStart
        /\ SrrWeights = <<4, 1>>)
    => /\ \A p \in 1 .. Len(srrLog) - 4 :
            \E q \in p .. p + 4 : srrLog[q] # 1
       /\ (Len(srrLog) = 5 /\ SrrNobodyInside)
            => \A i \in DOMAIN srrNodes : srrNodes[i].current = 0

\* C10 witness: ten calls on [4,1]; calls 4..7, across the period boundary,
\* all selected the heavier node and the calls before and after did not.
C10_Witness ==
    /\ strategy = "srr" /\ srrState = "ready" /\ SrrZeroStart
    /\ SrrWeights = <<4, 1>>
    /\ Len(srrLog) = 10
    /\ \A q \in 4 .. 7 : srrLog[q] = 1
    /\ srrLog[3] = 2 /\ srrLog[8] = 2

(***************************************************************************)
(* Claims about Weighted Random.                                           *)
(***************************************************************************)
\* the cumulative weight of entries 1..i of a list
Cumulative(servers, i) == SumTo([j \in DOMAIN servers |-> servers[j].Weight], i)

\* goroutine t is in a call that has drawn and is about to return
WrDrawnReturn(t) == wrPc[t] = "ret" /\ wrDrew[t]

\* C6: for every snapshot with total T > 0 and every draw r in [0, T), Next
\* returns, from inside the loop, the address of the first entry in list
\* order whose cumulative weight exceeds r (the entry at which the
\* subtract-and-test walk of the code first makes r negative).
C6_WeightedSelectionRule ==
    \A t \in WrThreads :
        (strategy = "wr" /\ WrDrawnReturn(t))
        => /\ Cumulative(wrSnap[t], Len(wrSnap[t])) > 0
           /\ wrIdx[t] \in 0 .. Cumulative(wrSnap[t], Len(wrSnap[t])) - 1
           /\ \E i \in DOMAIN wrSnap[t] :
                /\ Cumulative(wrSnap[t], i) > wrIdx[t]
                /\ \A j \in 1 .. i - 1 : Cumulative(wrSnap[t], j) <= wrIdx[t]
                /\ wrRet[t] = wrSnap[t][i].Addr
                /\ wrHow[t] = "loop"

\* C6 witness: on the weights [2,-1,2] (cumulative 2, 1, 3) the draw 2 is
\* passed by the first two entries and the call returns the third.
C6_Witness ==
    /\ strategy = "wr" /\ WrDrawnReturn(1)
    /\ wrSnap[1] = ServersOf(<<2, -1, 2>>)
    /\ wrIdx[1] = 2
    /\ wrRet[1] = ServerName(3)

WrNoServer(servers) ==
    Len(servers) = 0 \/ Cumulative(servers, Len(servers)) <= 0

\* C7: when the loaded list is empty or its weights sum to <= 0, the call
\* returns the empty string without drawing from rng, and no call panics
\* (no draw is ever attempted on such a list).
C7_WeightedZeroTotal ==
    \A t \in WrThreads :
        strategy = "wr"
        => /\ wrPc[t] # "panic"
           /\ wrPc[t] \in {"lock", "draw", "walk"} => ~WrNoServer(wrSnap[t])
           /\ (wrPc[t] = "ret" /\ WrNoServer(wrSnap[t]))
                => (wrRet[t] = Sentinel /\ ~wrDrew[t]
                        /\ wrHow[t] \in {"empty", "zero"})

\* C7 witness: the weights [2,-1,-1], a negative cancelling a positive, sum
\* to 0 and the call is about to return the empty string without a draw.
C7_Witness ==
    /\ strategy = "wr" /\ wrPc[1] = "ret"
    /\ wrSnap[1] = ServersOf(<<2, -1, -1>>)
    /\ wrRet[1] = Sentinel /\ ~wrDrew[1] /\ wrHow[1] = "zero"

\* the draw values on which the walk over the list returns entry i
WrDrawsSelecting(servers, totalWeight, i) ==
    {r \in Intn(totalWeight) : WalkFrom(servers, 1, r).pos = i}

\* every entry i of the list of goroutine t is selected by exactly w_i of the
\* T draw values
WrProportional(t) ==
    /\ Cardinality(Intn(wrTotal[t])) = Cumulative(wrSnap[t], Len(wrSnap[t]))
    /\ \A i \in DOMAIN wrSnap[t] :
        Cardinality(WrDrawsSelecting(wrSnap[t], wrTotal[t], i))
            = wrSnap[t][i].Weight

\* C8 as claimed: for every snapshot with total T > 0, each entry i is
\* selected by exactly w_i of the T draw values, whether or not the pool
\* contains entries with weight <= 0, negative ones included.
C8_Original ==
    \A t \in WrThreads :
        (strategy = "wr" /\ WrDrawnReturn(t)) => WrProportional(t)

\* C8 amended: for every snapshot with total T > 0 and no negative weight,
\* each entry i is selected by exactly w_i of the T draw values, whether or
\* not the pool contains entries of weight 0.
C8_WeightedProportional ==
    \A t \in WrThreads :
        (strategy = "wr" /\ WrDrawnReturn(t)
            /\ \A i \in DOMAIN wrSnap[t] : wrSnap[t][i].Weight >= 0)
        => WrProportional(t)

\* C8 witness: on the weights [0,1,2] a call drew 1 and returns the third
\* entry; the zero-weight entry takes none of the 3 draw values.
C8_Witness ==
    /\ strategy = "wr" /\ WrDrawnReturn(1)
    /\ wrSnap[1] = ServersOf(<<0, 1, 2>>)
    /\ wrIdx[1] = 1 /\ wrRet[1] = ServerName(3)
    /\ WrDrawsSelecting(wrSnap[1], wrTotal[1], 1) = {}

\* C9: when the pool is replaced concurrently with Next calls, each call
\* works on the one list it loaded, a list that was stored whole: its total
\* is the sum of that list, its draw lies below that total, and the address
\* it returns is the one the draw selects in that list, whatever r.servers
\* holds by then.
C9_WeightedSnapshot ==
    \A t \in WrThreads :
        (strategy = "wr" /\ wrPc[t] # "idle")
        => /\ wrSnap[t] \in wrHistory
           /\ wrPc[t] \in {"lock", "draw", "walk"}
                => wrTotal[t] = Cumulative(wrSnap[t], Len(wrSnap[t]))
           /\ WrDrawnReturn(t)
                => /\ wrTotal[t] = Cumulative(wrSnap[t], Len(wrSnap[t]))
                   /\ wrIdx[t] < wrTotal[t]
                   /\ \E i \in DOMAIN wrSnap[t] :
                        /\ wrRet[t] = wrSnap[t][i].Addr
                        /\ wrIdx[t] - Cumulative(wrSnap[t], i) < 0
                        /\ wrIdx[t] - Cumulative(wrSnap[t], i - 1) >= 0

\* C9 witness: a call loaded [1,2,3], the pool was then replaced by the
\* reversed list, and the call, having drawn 0, returns the first entry of
\* the list it loaded (the reversed list would give the third).
C9_Witness ==
    /\ strategy = "wr" /\ WrDrawnReturn(1)
    /\ wrSnap[1] = ServersOf(<<1, 2, 3>>)
    /\ wrServers = Reverse(ServersOf(<<1, 2, 3>>))
    /\ wrIdx[1] = 0 /\ wrRet[1] = ServerName(1)

(***************************************************************************)
(* Further claims about Smooth Weighted Round-Robin.                       *)
(***************************************************************************)
\* the first calls of one sequential caller on [a:5, b:1, c:1] from all
\* current = 0 have returned the first nodes of the sequence expected
SrrReferencePrefix(expected) ==
    (strategy = "srr" /\ srrState = "ready" /\ srrG = 1 /\ SrrZeroStart
        /\ SrrWeights = <<5, 1, 1>>)
    => \A k \in 1 .. Len(expected) :
            k <= Len(srrLog) => srrLog[k] = expected[k]

\* C11 as claimed: on the pool [a:5, b:1, c:1], from the fresh zero state,
\* the first 7 sequential Next calls return a, a, b, c, a, a, a.
C11_Original == SrrReferencePrefix(<<1, 1, 2, 3, 1, 1, 1>>)

\* C11 amended: on the pool [a:5, b:1, c:1], from the fresh zero state, the
\* first 7 sequential Next calls return a, a, b, a, c, a, a.
C11_SmoothReferenceSequence == SrrReferencePrefix(<<1, 1, 2, 1, 3, 1, 1>>)

\* C11 witness: seven sequential calls on [5,1,1] have returned
\* a, a, b, a, c, a, a.
C11_Witness ==
    /\ strategy = "srr" /\ srrState = "ready" /\ srrG = 1 /\ SrrZeroStart
    /\ SrrWeights = <<5, 1, 1>>
    /\ srrLog = <<1, 1, 2, 1, 3, 1, 1>>


\* ---------------------------------------------------------------------------
\* C12 (as stated): with a single caller and a non-empty list, every call
\* returns the successor of the server the previous call returned, in list
\* order and wrapping from the last server to the first, for the whole life
\* of the balancer, the overflow of the 64-bit counter included.
C12_Original ==
    [][(/\ strategy = "rr" /\ rrG = 1 /\ Len(rrServers) >= 1
        /\ rrDone[1] >= 1 /\ rrDone'[1] = rrDone[1] + 1)
       => \E i \in 1 .. Len(rrServers) :
            /\ rrLast[1] = rrServers[i]
            /\ rrLast'[1] = rrServers[(i % Len(rrServers)) + 1]]_vars

\* ---------------------------------------------------------------------------
\* C13 (as stated): every NewRoundRobinBalancer, of either copy, fails on an
\* empty list and yields no instance, so that no Next call is ever executed
\* on an instance whose server list is empty.
C13_Original ==
    (strategy = "rr" /\ Len(rrServers) = 0)
        => /\ rrBuilt = "panic"
           /\ \A t \in RrThreads : rrPc[t] = "idle" /\ rrDone[t] = 0

\* ---------------------------------------------------------------------------
\* C14: Random.  On a non-empty list of N servers every Next call, whatever
\* the goroutines and whatever the caller's earlier calls returned, draws an
\* index in 0 .. N-1 (each of them can be drawn) and returns the server at
\* that index; no call fails.  On an empty list every call returns the empty
\* string and never reaches the draw.
C14_RandomSelection ==
    strategy = "rnd" =>
        \A t \in RndThreads :
            /\ rndPc[t] # "panic"
            /\ Len(rndServers) = 0 => rndPc[t] \in {"idle", "ret"} /\ ~rndDrew[t]
            /\ rndPc[t] = "draw" =>
                    \A i \in 0 .. (Len(rndServers) - 1) :
                        ENABLED (RndDraw(t) /\ rndIdx'[t] = i)
            /\ rndPc[t] = "ret" =>
                    IF Len(rndServers) = 0
                    THEN rndRet[t] = Sentinel
                    ELSE /\ rndDrew[t]
                         /\ rndIdx[t] \in 0 .. (Len(rndServers) - 1)
                         /\ rndRet[t] = rndServers[rndIdx[t] + 1]

\* C14 witness: with two goroutines on three servers, one call returns the
\* third server, which its goroutine had not been given before, while the
\* other goroutine is drawing.
C14_Witness ==
    /\ strategy = "rnd" /\ rndG = 2 /\ Len(rndServers) = 3
    /\ rndPc[1] = "ret" /\ rndRet[1] = ServerName(3)
    /\ rndSeen[1] = {ServerName(1)}
    /\ rndPc[2] = "draw"

\* ---------------------------------------------------------------------------
\* C15: Weighted Random never selects an entry of weight <= 0.  Whenever a
\* call returns, it returns the empty string without a walk or an address
\* that no entry of its snapshot with a zero or negative weight has; a call that drew (total T > 0, r in [0, T)) returns
\* the address of an entry whose weight is strictly positive.
C15_WeightedNoNonPositive ==
    \A t \in WrThreads :
        (strategy = "wr" /\ wrPc[t] = "ret")
        => /\ IF wrHow[t] \in {"empty", "zero"}
              THEN wrRet[t] = Sentinel
              ELSE \A i \in DOMAIN wrSnap[t] :
                        wrSnap[t][i].Weight <= 0 => wrRet[t] # wrSnap[t][i].Addr
           /\ wrDrew[t] =>
                \E i \in DOMAIN wrSnap[t] :
                    wrSnap[t][i].Weight > 0 /\ wrRet[t] = wrSnap[t][i].Addr

\* C15 witness: on the weights [0,1,2] the draw 0 passes the zero-weight
\* first entry and the call returns the second.
C15_Witness ==
    /\ strategy = "wr" /\ WrDrawnReturn(1)
    /\ wrSnap[1] = ServersOf(<<0, 1, 2>>)
    /\ wrIdx[1] = 0
    /\ wrRet[1] = ServerName(2)

\* ---------------------------------------------------------------------------
\* a Next call of goroutine t is started and has not returned
RrInCall(t) == strategy = "rr" /\ rrPc[t] # "idle"
SrrInCall(t) == strategy = "srr" /\ srrPc[t] # "idle"
WrInCall(t) == strategy = "wr" /\ wrPc[t] # "idle"
RndInCall(t) == strategy = "rnd" /\ rndPc[t] # "idle"

\* some started call takes its next step
CallStep ==
    \/ \E t \in RrThreads : RrReturn(t)
    \/ \E t \in SrrThreads : SrrLock(t) \/ SrrLoop(t) \/ SrrReturn(t)
    \/ \E t \in WrThreads :
            WrSum(t) \/ WrLock(t) \/ WrDraw(t) \/ WrWalk(t) \/ WrReturn(t)
    \/ \E t \in RndThreads : RndLock(t) \/ RndDraw(t) \/ RndIndex(t) \/ RndReturn(t)

\* no state with a started call is a deadlock: some started call can step
NoDeadlock ==
    ((\E t \in RrThreads : RrInCall(t)) \/ (\E t \in SrrThreads : SrrInCall(t))
        \/ (\E t \in WrThreads : WrInCall(t)) \/ (\E t \in RndThreads : RndInCall(t)))
    => ENABLED CallStep

\* C16: no unbounded blocking.  For each of the four strategies and any
\* goroutines calling Next concurrently under a fair scheduler, no state in
\* which a call is started is a deadlock, and every started Next call
\* eventually returns to its caller.
C16_NoUnboundedBlocking ==
    /\ []NoDeadlock
    /\ \A t \in RrThreads : RrInCall(t) ~> (rrPc[t] = "idle")
    /\ \A t \in SrrThreads : SrrInCall(t) ~> (srrPc[t] = "idle")
    /\ \A t \in WrThreads : WrInCall(t) ~> (wrPc[t] = "idle")
    /\ \A t \in RndThreads : RndInCall(t) ~> (rndPc[t] = "idle")

\* C16 witness: on a Random instance one goroutine holds the lock at the
\* draw while the other, its call started, waits for the lock.
C16_Witness ==
    /\ strategy = "rnd" /\ rndLock = 1
    /\ rndPc[1] = "draw" /\ rndPc[2] = "lock"

\* ---------------------------------------------------------------------------
\* C17: Smooth Weighted Round-Robin tie-break.  At every point of the loop
\* of a Next call the candidate is, among the entries already incremented,
\* the earliest in list order that has the maximum current; so when the loop
\* is over the entry about to be returned has the maximum current of the
\* whole list and, of the entries sharing that maximum, is the first.
C17_SmoothTieBreak ==
    \A t \in SrrThreads :
        (strategy = "srr" /\ srrPc[t] = "loop" /\ srrI[t] > 1)
        => /\ srrBest[t] \in 1 .. (srrI[t] - 1)
           /\ \A j \in 1 .. (srrI[t] - 1) :
                /\ srrNodes[j].current <= srrNodes[srrBest[t]].current
                /\ j < srrBest[t]
                        => srrNodes[j].current < srrNodes[srrBest[t]].current

\* C17 witness: on the weights [1,1,2] the first call ends its loop with the
\* currents 1, 1, 2 and lowers the third by 4; the second call ends its loop
\* with 2, 2, 0, the first two tied, and is about to return the first.
C17_Witness ==
    /\ strategy = "srr" /\ srrPc[1] = "loop" /\ srrI[1] > Len(srrNodes)
    /\ SrrWeights = <<1, 1, 2>>
    /\ srrNodes[1].current = 2 /\ srrNodes[2].current = 2 /\ srrNodes[3].current = 0
    /\ srrBest[1] = 1

\* ---------------------------------------------------------------------------
\* C18 (as stated): as long as no Next call has been started on an instance
\* that NewSmoothRRBalancer returned, the current of every entry is 0,
\* whatever current the nodes passed to the constructor carried.
C18_Original ==
    (strategy = "srr" /\ srrState = "ready" /\ srrStarted = 0)
        => \A i \in DOMAIN srrNodes : srrNodes[i].current = 0

\* ---------------------------------------------------------------------------
\* C19: random-draw serialization in Random and Weighted Random.  At any
\* instant at most one goroutine is at the draw on the instance's random
\* source, and the mutex is held by a goroutine exactly while that goroutine
\* is at the draw: it is free of every goroutine that is loading the list,
\* summing the weights, waiting, walking or indexing the list, or returning.
C19_DrawSerialized ==
    /\ strategy = "wr" =>
            /\ Cardinality({t \in WrThreads : wrPc[t] = "draw"}) <= 1
            /\ \A t \in WrThreads : (wrLock = t) <=> (wrPc[t] = "draw")
            /\ wrLock \in {0} \cup WrThreads
    /\ strategy = "rnd" =>
            /\ Cardinality({t \in RndThreads : rndPc[t] = "draw"}) <= 1
            /\ \A t \in RndThreads : (rndLock = t) <=> (rndPc[t] = "draw")
            /\ rndLock \in {0} \cup RndThreads

\* C19 witness: on a Weighted Random instance one goroutine is at the draw
\* holding the mutex while the other, the mutex released, walks the list.
C19_Witness ==
    /\ strategy = "wr" /\ wrLock = 1
    /\ wrPc[1] = "draw" /\ wrPc[2] = "walk"

\* ---------------------------------------------------------------------------
\* C20 (as stated): for every constructed Weighted Random instance and every
\* constructed Smooth Weighted Round-Robin instance no weight of the pool
\* exceeds maxWeight and the sum of the pool's weights does not exceed
\* maxTotalWeight.
C20_Original ==
    /\ strategy = "wr" =>
            /\ \A i \in DOMAIN wrServers : wrServers[i].Weight <= maxWeight
            /\ Cumulative(wrServers, Len(wrServers)) <= maxTotalWeight
    /\ (strategy = "srr" /\ srrState = "ready") =>
            /\ \A i \in DOMAIN srrNodes : srrNodes[i].weight <= maxWeight
            /\ SrrTotalWeight <= maxTotalWeight

\* ---------------------------------------------------------------------------
\* goroutine t is at an access of the current of node i: inside the loop of
\* Next, at node i or with node i as the candidate, or outside Next, about
\* to read it through the pointer Next returned
SrrAccesses(t, i) ==
    \/ srrPc[t] = "loop" /\ (srrI[t] = i \/ srrBest[t] = i)
    \/ srrHeld[t] = i

\* C21 (as stated): every read and every write of an entry's current is made
\* by a goroutine that is inside Next holding the instance's lock, so no two
\* goroutines are ever at an access of the same entry's current, whatever the
\* callers do with the node pointers Next returned.
C21_Original ==
    strategy = "srr" =>
        \A t \in SrrThreads : \A i \in DOMAIN srrNodes :
            SrrAccesses(t, i)
                => /\ srrLock = t
                   /\ \A u \in SrrThreads \ {t} : ~SrrAccesses(u, i)

\* ---------------------------------------------------------------------------
\* the sum of the current accumulators of the instance
SrrCurrentSum == SumTo([i \in DOMAIN srrNodes |-> srrNodes[i].current], Len(srrNodes))

\* C22: Smooth Weighted Round-Robin zero-sum invariant.  Starting from all
\* current = 0, whenever no call is inside its loop (so after every completed
\* Next call) the currents sum to 0, and inside a call they sum to the total
\* weight added so far; the weights and the list order stay those given to
\* the constructor; every call returned a node of the list, never nil.
C22_SmoothZeroSum ==
    (strategy = "srr" /\ srrState = "ready" /\ SrrZeroStart)
    => /\ SrrNobodyInside => SrrCurrentSum = 0
       /\ \A t \in SrrThreads : srrPc[t] = "loop" => SrrCurrentSum = srrTotal[t]
       /\ Len(srrNodes) = Len(srrInput)
       /\ \A i \in DOMAIN srrNodes : srrNodes[i].weight = srrInput[i].weight
       /\ \A p \in DOMAIN srrLog : srrLog[p] \in DOMAIN srrNodes

\* C22 witness: on the weights [3,2,1] two calls have returned, nobody is
\* inside, and the currents 0, -2, 2 are not all zero but sum to 0.
C22_Witness ==
    /\ strategy = "srr" /\ srrState = "ready" /\ SrrZeroStart
    /\ SrrWeights = <<3, 2, 1>> /\ SrrNobodyInside
    /\ srrLog = <<1, 2>>
    /\ srrNodes[1].current = 0 /\ srrNodes[2].current = -2 /\ srrNodes[3].current = 2

\* C23: Smooth Weighted Round-Robin state periodicity.  For every valid pool
\* of total weight T, starting from all current = 0 and with one caller,
\* after every multiple of T calls every current is 0 again, and every call
\* after the first T returns the node that the call T earlier returned.
C23_SmoothStatePeriod ==
    (strategy = "srr" /\ srrState = "ready" /\ srrG = 1 /\ SrrZeroStart)
    => /\ \A m \in 1 .. SrrMaxCalls :
            (Len(srrLog) = m * SrrTotalWeight /\ SrrNobodyInside)
                => \A i \in DOMAIN srrNodes : srrNodes[i].current = 0
       /\ \A k \in DOMAIN srrLog :
            k > SrrTotalWeight => srrLog[k] = srrLog[k - SrrTotalWeight]

\* C23 witness: on the weights [2,1] (T = 3) six calls have returned, the
\* second three repeating the first three, and the currents are 0 again.
C23_Witness ==
    /\ strategy = "srr" /\ srrState = "ready" /\ srrG = 1 /\ SrrZeroStart
    /\ SrrWeights = <<2, 1>> /\ SrrNobodyInside
    /\ srrLog = <<1, 2, 1, 1, 2, 1>>
    /\ \A i \in DOMAIN srrNodes : srrNodes[i].current = 0

\* ---------------------------------------------------------------------------
\* C24: the Weighted Random fallback is unreachable.  For every snapshot of
\* total T > 0, whatever the mix of positive, zero and negative weights, and
\* every draw r in [0, T), the walk about to run returns from inside the
\* loop; no call has ever taken the trailing return servers[0].Addr.
C24_WeightedNoFallback ==
    \A t \in WrThreads :
        strategy = "wr"
        => /\ wrHow[t] # "fallback"
           /\ wrPc[t] = "walk"
                => /\ wrTotal[t] > 0
                   /\ wrIdx[t] \in 0 .. (wrTotal[t] - 1)
                   /\ WalkFrom(wrSnap[t], 1, wrIdx[t]).how = "loop"

\* C24 witness: on the weights [0,-1,2] (T = 1) the draw 0 is passed by the
\* zero and the negative entry and the loop returns at the last entry.
C24_Witness ==
    /\ strategy = "wr" /\ WrDrawnReturn(1)
    /\ wrSnap[1] = ServersOf(<<0, -1, 2>>)
    /\ wrIdx[1] = 0
    /\ wrHow[1] = "loop" /\ wrRet[1] = ServerName(3)

=============================================================================
